---- MODULE Spec2Model ----
(***************************************************************************)
(* aarch64-lsp: the line lexer (tokenizer.ts), the document tokenizer and  *)
(* the syscall hint analyzer (analyzer.ts).                                *)
(*                                                                         *)
(* A line of text is a sequence of one-character strings; columns are the  *)
(* zero-based offsets of the source, so the character at column c is       *)
(* text[c + 1].                                                            *)
(***************************************************************************)
EXTENDS Integers, Sequences, FiniteSets, TLC

VARIABLES
  \* ---- tokenizeLine (tokenizer.ts 26-105)
  text,         \* the line being scanned
  i,            \* scan position
  buffer,       \* accumulated characters of the token in progress
  state,        \* "default" | "inString"
  tokenStart,   \* start column of the token in progress
  result,       \* tokens emitted so far
  pc,           \* "scan" while the loop runs, "done" after the return
  \* ---- tokenizeDocument (tokenizer.ts 10-24)
  docText,      \* the document text
  lines,        \* text.split(/\r?\n/)
  line,         \* loop index
  data,         \* the token table built so far
  docPc,        \* "loop" while the for loop runs, "done" after the return
  \* ---- getHintsFromTokens (analyzer.ts 32-139)
  tokensByLine, \* the token table given to the call
  entryIdx,     \* number of entries of Object.entries(data) already visited
  lineNumber,   \* line number of the entry visited last (-1 before the first)
  registerInfo, \* register name -> last assignment, or Null
  hintsPerLine, \* line number -> hints
  hintPc,       \* "loop", "returned" or "threw"
  \* ---- Model (model.ts 9-26)
  structure,    \* uri -> [tokens |-> token table]
  lastText,     \* uri -> e.document.getText() of the last handleSync for it
  uri           \* the argument of the last getTokensForFileByUri ("" before)

lexVars == <<text, i, buffer, state, tokenStart, result, pc>>

docVars == <<docText, lines, line, data, docPc>>

hintVars == <<tokensByLine, entryIdx, lineNumber, registerInfo, hintsPerLine, hintPc>>

modelVars == <<structure, lastText, uri>>

vars == <<lexVars, docVars, hintVars, modelVars>>

----------------------------------------------------------------------------
\* Bounds of the model.

\* Longest line enumerated character by character.
MaxLen == 4

\* Longest document text enumerated character by character.
MaxDocLen == 5

\* Most lines of a document assembled from the pool of assembly lines.
MaxDocLines == 3

----------------------------------------------------------------------------
\* Characters.

SP == " "
TAB == "\t"
CR == "\r"
LF == "\n"
DQ == "\""
SQ == "'"
COMMA == ","

\* Variant of LexWhitespace: the switch has no case for the tab.
LexWhitespace_NoTab == {SP, LF, CR}

\* The characters the lexer's switch treats as whitespace.
LexWhitespace == {SP, LF, TAB, CR}

\* The characters that start or end a string.
Quotes == {SQ, DQ}

\* The characters lines are drawn from.
Alphabet == {"a", "b", SP, TAB, CR, LF, COMMA, DQ, SQ}

RECURSIVE Str(_)
\* A character sequence as one string.
Str(s) == IF Len(s) = 0 THEN "" ELSE Head(s) \o Str(Tail(s))

----------------------------------------------------------------------------
\* tokenizeLine

Token(kind, txt, startCol, endCol) ==
  [kind |-> kind, text |-> txt, startCol |-> startCol, endCol |-> endCol]

\* The state of one call of tokenizeLine, as a record.
LexState(pi, pbuffer, pstate, ptokenStart, presult) ==
  [i |-> pi, buffer |-> pbuffer, state |-> pstate,
   tokenStart |-> ptokenStart, result |-> presult]

LexInit == LexState(0, <<>>, "default", 0, <<>>)

\* flush(endCol): push the buffer as a token unless it is empty, and empty it.
flush(lx, endCol) ==
  IF Len(lx.buffer) = 0
  THEN lx
  ELSE [lx EXCEPT
          !.result = Append(lx.result,
                            Token(IF lx.state = "inString" THEN "string" ELSE "ident",
                                  lx.buffer, lx.tokenStart, endCol)),
          !.buffer = <<>>]

\* The loop body while state is inString: any quote character ends the string.
StepInString(lx, char) ==
  LET buf == Append(lx.buffer, char) IN
  IF char = SQ \/ char = DQ
  THEN [lx EXCEPT
          !.result = Append(lx.result, Token("string", buf, lx.tokenStart, lx.i + 1)),
          !.buffer = <<>>,
          !.state = "default",
          !.i = lx.i + 1]
  ELSE [lx EXCEPT !.buffer = buf, !.i = lx.i + 1]

\* Variant of StepWhitespace: the blank goes into the buffer of the token in
\* progress before the flush.
StepWhitespace_Buffered(lx) ==
  [flush([lx EXCEPT !.buffer = IF Len(lx.buffer) = 0 THEN <<>> ELSE Append(lx.buffer, SP)],
         lx.i)
     EXCEPT !.i = lx.i + 1]

\* case ' ', '\n', '\t', '\r'
StepWhitespace(lx) ==
  [flush(lx, lx.i) EXCEPT !.i = lx.i + 1]

\* case ','
StepComma(lx) ==
  LET f == flush(lx, lx.i) IN
  [f EXCEPT !.result = Append(f.result, Token("comma", <<COMMA>>, lx.i, lx.i + 1)),
            !.i = lx.i + 1]

\* Variant of StepQuote: the start column of the string is not recorded.
StepQuote_KeepStart(lx, char) ==
  [lx EXCEPT !.state = "inString",
             !.buffer = <<char>>,
             !.i = lx.i + 1]

\* case "'", '"': the buffer is reset without being flushed.
StepQuote(lx, char) ==
  [lx EXCEPT !.state = "inString",
             !.buffer = <<char>>,
             !.tokenStart = lx.i,
             !.i = lx.i + 1]

\* Any other character is appended to the buffer.
StepOther(lx, char) ==
  [lx EXCEPT !.tokenStart = IF Len(lx.buffer) = 0 THEN lx.i ELSE lx.tokenStart,
             !.buffer = Append(lx.buffer, char),
             !.i = lx.i + 1]

\* One iteration of the while loop on line txt.
LexStep(lx, txt) ==
  LET char == txt[lx.i + 1] IN
  IF lx.state = "inString" THEN StepInString(lx, char)
  ELSE IF char \in LexWhitespace THEN StepWhitespace(lx)
  ELSE IF char = COMMA THEN StepComma(lx)
  ELSE IF char \in Quotes THEN StepQuote(lx, char)
  ELSE StepOther(lx, char)

RECURSIVE LexRun(_, _)
\* The while loop, then the final flush.
LexRun(lx, txt) ==
  IF lx.i < Len(txt) THEN LexRun(LexStep(lx, txt), txt) ELSE flush(lx, lx.i)

\* tokenizeLine(text): the tokens of one line.
tokenizeLine(txt) == LexRun(LexInit, txt).result

----------------------------------------------------------------------------
\* The lexer as a state machine: one action per branch of the loop.

\* The sequences of n elements of S.
SeqsOfLen(S, n) == [1..n -> S]

\* Lines of the repository's tests and of the specification's examples.
LineMovX0X1 == <<"m","o","v"," ","x","0",","," ","x","1">>
LineMovTest == <<"m","o","v"," ","x","0",","," ","#","0"," ">>
LineAddTest == <<"\t","a","d","d","\t"," "," ","x","1",","," ","x","2",","," ","#","1","0"," ">>
LineAsciiTest == <<".","a","s","c","i","i"," ","\"","h","e","l","l","o"," ","w","o","r","l","d","\""," ">>
LineAscii == <<".","a","s","c","i","i"," ","\"","h","e","l","l","o"," ","w","o","r","l","d","\"">>

LineAbcDef == <<"a","b","c","\"","d","e","f","\"">>
LineIts == <<"\"","i","t","'","s","\"">>

ExampleLines ==
  {LineMovX0X1, LineMovTest, LineAddTest, LineAsciiTest, LineAscii, LineAbcDef, LineIts}

Lex == LexState(i, buffer, state, tokenStart, result)

SetLex(lx) ==
  /\ i' = lx.i
  /\ buffer' = lx.buffer
  /\ state' = lx.state
  /\ tokenStart' = lx.tokenStart
  /\ result' = lx.result

Scanning == pc = "scan" /\ i < Len(text)

\* No call of tokenizeDocument is in progress.
DocIdle ==
  /\ docText = <<>>
  /\ lines = <<>>
  /\ line = 0
  /\ data = <<>>
  /\ docPc = "idle"

\* No call of getHintsFromTokens is in progress.
HintIdle ==
  /\ tokensByLine = <<>>
  /\ entryIdx = 0
  /\ lineNumber = -1
  /\ registerInfo = <<>>
  /\ hintsPerLine = <<>>
  /\ hintPc = "idle"

\* Nothing was synced and nothing asked of the Model.
ModelIdle ==
  /\ structure = <<>>
  /\ lastText = <<>>
  /\ uri = ""

\* No call of tokenizeLine is in progress.
LexIdle ==
  /\ text = <<>>
  /\ i = 0
  /\ buffer = <<>>
  /\ state = "default"
  /\ tokenStart = 0
  /\ result = <<>>
  /\ pc = "idle"

InitLex ==
  /\ \/ \E n \in 0..MaxLen : text \in SeqsOfLen(Alphabet, n)
     \/ text \in ExampleLines
  /\ i = 0
  /\ buffer = <<>>
  /\ state = "default"
  /\ tokenStart = 0
  /\ result = <<>>
  /\ pc = "scan"
  /\ DocIdle
  /\ HintIdle
  /\ ModelIdle

ScanInString ==
  /\ Scanning
  /\ state = "inString"
  /\ SetLex(StepInString(Lex, text[i + 1]))
  /\ UNCHANGED <<text, pc, docVars, hintVars, modelVars>>

ScanWhitespace ==
  /\ Scanning
  /\ state = "default"
  /\ text[i + 1] \in LexWhitespace
  /\ SetLex(StepWhitespace(Lex))
  /\ UNCHANGED <<text, pc, docVars, hintVars, modelVars>>

ScanComma ==
  /\ Scanning
  /\ state = "default"
  /\ text[i + 1] = COMMA
  /\ SetLex(StepComma(Lex))
  /\ UNCHANGED <<text, pc, docVars, hintVars, modelVars>>

ScanQuote ==
  /\ Scanning
  /\ state = "default"
  /\ text[i + 1] \in Quotes
  /\ SetLex(StepQuote(Lex, text[i + 1]))
  /\ UNCHANGED <<text, pc, docVars, hintVars, modelVars>>

ScanOther ==
  /\ Scanning
  /\ state = "default"
  /\ text[i + 1] \notin LexWhitespace \cup {COMMA} \cup Quotes
  /\ SetLex(StepOther(Lex, text[i + 1]))
  /\ UNCHANGED <<text, pc, docVars, hintVars, modelVars>>

\* The flush after the loop, and the return.
ScanReturn ==
  /\ pc = "scan"
  /\ i >= Len(text)
  /\ SetLex(flush(Lex, i))
  /\ pc' = "done"
  /\ UNCHANGED <<text, docVars, hintVars, modelVars>>

NextLex ==
  \/ ScanInString
  \/ ScanWhitespace
  \/ ScanComma
  \/ ScanQuote
  \/ ScanOther
  \/ ScanReturn

SpecLex == InitLex /\ [][NextLex]_vars

----------------------------------------------------------------------------
\* Claims about tokenizeLine, checked under SpecLex.

Cols(txt) == 0..(Len(txt) - 1)

\* The indices of the tokens of res whose span holds column c.
Covering(res, c) == {k \in 1..Len(res) : res[k].startCol <= c /\ c < res[k].endCol}

RECURSIVE OpenAt(_, _)
\* Reading txt as source text, in which a literal runs from its opening quote
\* to the next occurrence of that same quote character (or to the end of the
\* line): the quote character of the literal that is open on reaching column
\* c, "" when column c is outside every literal.
OpenAt(txt, c) ==
  IF c = 0 THEN ""
  ELSE LET o == OpenAt(txt, c - 1)
           ch == txt[c]
       IN IF o = "" THEN (IF ch \in Quotes THEN ch ELSE "")
          ELSE IF ch = o THEN "" ELSE o

\* The kinds and texts of a token sequence, without the columns.
KindText(res) == [k \in 1..Len(res) |-> <<res[k].kind, res[k].text>>]

\* C1: when tokenizeLine returns, every character of the line other than
\* space, tab, CR and LF lies inside the span of a token whose text holds that
\* character at that offset.
C1_CoversNonWhitespace ==
  pc = "done" =>
    \A c \in Cols(text) :
      text[c + 1] \notin {SP, TAB, CR, LF} =>
        \E k \in Covering(result, c) :
          /\ c - result[k].startCol + 1 <= Len(result[k].text)
          /\ result[k].text[c - result[k].startCol + 1] = text[c + 1]

\* C2: the tokens are in source order and do not overlap: each has
\* 0 <= startCol < endCol <= line length and ends no later than the next one
\* starts.
C2_OrderedDisjoint ==
  \A k \in 1..Len(result) :
    /\ 0 <= result[k].startCol
    /\ result[k].startCol < result[k].endCol
    /\ result[k].endCol <= Len(text)
    /\ k < Len(result) => result[k].endCol <= result[k + 1].startCol

\* C2 witness: a finished scan that produced an operand, a comma and a string.
C2_Witness ==
  /\ pc = "done"
  /\ Len(result) >= 3
  /\ \E k \in 1..Len(result) : result[k].kind = "ident"
  /\ \E k \in 1..Len(result) : result[k].kind = "string"
  /\ \E k \in 1..Len(result) : result[k].kind = "comma"

\* C3: every comma outside a string literal, at column c, is covered by
\* exactly one token, the comma token c..c+1; operand text pending before it
\* is the ident token just before it, ending at c; and "mov x0, x1" gives
\* ident mov 0-3, ident x0 4-6, comma 6-7, ident x1 8-10.
C3_CommaIsolation ==
  pc = "done" =>
    /\ \A c \in Cols(text) :
         (text[c + 1] = COMMA /\ OpenAt(text, c) = "") =>
           /\ Cardinality(Covering(result, c)) = 1
           /\ \A k \in Covering(result, c) :
                /\ result[k] = Token("comma", <<COMMA>>, c, c + 1)
                /\ (/\ c > 0
                    /\ OpenAt(text, c - 1) = ""
                    /\ text[c] \notin LexWhitespace \cup {COMMA} \cup Quotes)
                   => /\ k > 1
                      /\ result[k - 1].kind = "ident"
                      /\ result[k - 1].endCol = c
    /\ text = LineMovX0X1 =>
         result = << Token("ident", <<"m","o","v">>, 0, 3),
                     Token("ident", <<"x","0">>, 4, 6),
                     Token("comma", <<COMMA>>, 6, 7),
                     Token("ident", <<"x","1">>, 8, 10) >>

\* The column of the first occurrence of character q after column p.
CloseOf(txt, p, q) ==
  CHOOSE c \in Cols(txt) :
    /\ c > p
    /\ txt[c + 1] = q
    /\ \A d \in Cols(txt) : (d > p /\ d < c) => txt[d + 1] # q

\* C4: a quoted literal that opens after whitespace at column p and is closed
\* at column q is one string token p..q+1 whose text is the literal with both
\* quotes, no other token lies in its span, and `.ascii "hello world"` gives
\* two tokens.
C4_StringContainment ==
  pc = "done" =>
    /\ \A p \in Cols(text) :
         (/\ text[p + 1] \in Quotes
          /\ OpenAt(text, p) = ""
          /\ p > 0
          /\ text[p] \in LexWhitespace
          /\ \E c \in Cols(text) : c > p /\ text[c + 1] = text[p + 1])
         => LET q == CloseOf(text, p, text[p + 1]) IN
            /\ \E k \in 1..Len(result) :
                 result[k] = Token("string", SubSeq(text, p + 1, q + 1), p, q + 1)
            /\ \A k \in 1..Len(result) :
                 (result[k].endCol > p /\ result[k].startCol <= q)
                   => result[k].startCol = p /\ result[k].endCol = q + 1
    /\ text = LineAscii => Len(result) = 2

SpaceTab == {SP, TAB}

InsertAt(txt, p, ch) == SubSeq(txt, 1, p) \o <<ch>> \o SubSeq(txt, p + 1, Len(txt))

DeleteAt(txt, p) == SubSeq(txt, 1, p - 1) \o SubSeq(txt, p + 1, Len(txt))

\* Whether index p of txt (1-based) holds a space or a tab.
IsBlank(txt, p) == p >= 1 /\ p <= Len(txt) /\ txt[p] \in SpaceTab

\* The lines that differ from txt by one space or tab: one more blank in or
\* next to a run of blanks or at either end of the line, one blank fewer in a
\* run of two or more or at either end, or one blank replaced by the other.
\* Every change of the blank runs between tokens that keeps each run non-empty
\* is a chain of such steps.
Respacings(txt) ==
  {InsertAt(txt, p, ch) : p \in {q \in 0..Len(txt) :
                                   \/ q = 0
                                   \/ q = Len(txt)
                                   \/ IsBlank(txt, q)
                                   \/ IsBlank(txt, q + 1)},
                          ch \in SpaceTab}
  \cup
  {DeleteAt(txt, p) : p \in {q \in 1..Len(txt) :
                               /\ IsBlank(txt, q)
                               /\ \/ q = 1
                                  \/ q = Len(txt)
                                  \/ IsBlank(txt, q - 1)
                                  \/ IsBlank(txt, q + 1)}}
  \cup
  {[txt EXCEPT ![p] = ch] : p \in {q \in 1..Len(txt) : IsBlank(txt, q)},
                            ch \in SpaceTab}

NoQuotes(txt) == \A p \in 1..Len(txt) : txt[p] \notin Quotes

\* C5: for a line without quote characters, every respacing of the line has
\* the same sequence of (kind, text) pairs as the line itself.
C5_WhitespaceRobust ==
  (pc = "done" /\ NoQuotes(text)) =>
    \A v \in Respacings(text) : KindText(tokenizeLine(v)) = KindText(result)

\* C5 witness: a finished scan of a quote-free line that has a tab and a run
\* of two blanks between two tokens.
C5_Witness ==
  /\ pc = "done"
  /\ NoQuotes(text)
  /\ Len(result) >= 2
  /\ \E p \in 2..Len(text) :
       /\ IsBlank(text, p) /\ IsBlank(text, p + 1)
       /\ text[p - 1] \notin LexWhitespace
       /\ p + 2 <= Len(text) /\ text[p + 2] \notin LexWhitespace
  /\ \E p \in 1..Len(text) : text[p] = TAB

----------------------------------------------------------------------------
\* tokenizeDocument

FF == "\f"

\* The characters String.prototype.trim strips; the alphabet of the model
\* holds form feed for the ones the lexer's switch does not list.
TrimWhitespace == {SP, TAB, CR, LF, FF}

\* The characters document texts are drawn from.
DocAlphabet == {"a", SP, FF, CR, LF, DQ}

RECURSIVE SplitFrom(_, _, _)
\* text.split(/\r?\n/) from index p on, cur being the line read so far: a line
\* ends at each LF, and a CR right before that LF belongs to the separator.
SplitFrom(txt, p, cur) ==
  IF p > Len(txt) THEN <<cur>>
  ELSE IF txt[p] = LF THEN <<cur>> \o SplitFrom(txt, p + 1, <<>>)
  ELSE IF txt[p] = CR /\ p < Len(txt) /\ txt[p + 1] = LF
       THEN <<cur>> \o SplitFrom(txt, p + 2, <<>>)
  ELSE SplitFrom(txt, p + 1, Append(cur, txt[p]))

split(txt) == SplitFrom(txt, 1, <<>>)

RECURSIVE trimStart(_)
trimStart(s) ==
  IF Len(s) > 0 /\ Head(s) \in TrimWhitespace THEN trimStart(Tail(s)) ELSE s

RECURSIVE trimEnd(_)
trimEnd(s) ==
  IF Len(s) > 0 /\ s[Len(s)] \in TrimWhitespace
  THEN trimEnd(SubSeq(s, 1, Len(s) - 1))
  ELSE s

\* lineText.trim()
trim(s) == trimEnd(trimStart(s))

\* if (lineText && lineText?.trim().length === 0) continue;
IsBlankLine(lineText) == Len(lineText) > 0 /\ Len(trim(lineText)) = 0

MOV == <<"m", "o", "v">>

SVC == <<"s", "v", "c">>

\* The line `mov <reg>, <val>`.
MovLine(reg, val) == MOV \o <<SP>> \o reg \o <<COMMA, SP>> \o val

LineX8Write == MovLine(<<"x", "8">>, <<"#", "6", "4">>)
LineX8Exit == MovLine(<<"x", "8">>, <<"#", "9", "3">>)
LineX8Read == MovLine(<<"x", "8">>, <<"#", "6", "3">>)
LineX8Openat == MovLine(<<"x", "8">>, <<"#", "5", "6">>)
LineX8Unknown == MovLine(<<"x", "8">>, <<"#", "7">>)
LineX8Reg == MovLine(<<"x", "8">>, <<"x", "1">>)
LineX0One == MovLine(<<"x", "0">>, <<"#", "1">>)
LineX1Buf == MovLine(<<"x", "1">>, <<"#", "2", "0">>)
LineX2Count == MovLine(<<"x", "2">>, <<"#", "1", "3">>)
LineX0Hash == MovLine(<<"x", "0">>, <<"#">>)
LineX8Hash == MovLine(<<"x", "8">>, <<"#">>)
LineX0Five == MovLine(<<"x", "0">>, <<"#", "5">>)
LineX0Reg == MovLine(<<"x", "0">>, <<"x", "1">>)
LineSvc0 == SVC \o <<SP, "#", "0">>
LineSvc1 == SVC \o <<SP, "#", "1">>
LineSvc == SVC
LineMovNoValue == MOV \o <<SP, "x", "0", COMMA>>
LineMovToString == MovLine(<<"t", "o", "S", "t", "r", "i", "n", "g">>, <<"#", "1">>)
LineMovX9 == MovLine(<<"x", "9">>, <<"#", "1">>)
LineAdd == <<"a", "d", "d", SP, "x", "1", COMMA, SP, "x", "2", COMMA, SP, "#", "1", "0">>
LineEmpty == <<>>

\* The assembly lines documents are assembled from.
LinePool ==
  {LineX8Write, LineX8Exit, LineX8Unknown, LineX8Reg, LineX0One, LineX1Buf,
   LineSvc0, LineSvc1, LineSvc, LineMovNoValue, LineMovToString,
   LineMovX9, LineAdd, LineEmpty}

\* Variant of DataAdd: the tokens are stored under the number of lines kept so
\* far, as a push onto an array would.
DataAdd_Push(d, ln, lineText) ==
  [n \in (DOMAIN d) \cup {Cardinality(DOMAIN d)} |->
     IF n = Cardinality(DOMAIN d) THEN tokenizeLine(lineText) ELSE d[n]]

\* data[line] = tokenizeLine(lineText)
DataAdd(d, ln, lineText) ==
  [n \in (DOMAIN d) \cup {ln} |-> IF n = ln THEN tokenizeLine(lineText) ELSE d[n]]

\* One iteration of the for loop: the table after line ln, whose text is
\* lineText, has been looked at.
DocStep(d, ln, lineText) ==
  IF IsBlankLine(lineText) THEN d
  ELSE IF Len(lineText) > 0 THEN DataAdd(d, ln, lineText)
  ELSE d

RECURSIVE DocRun(_, _, _)
DocRun(d, ln, lns) ==
  IF ln < Len(lns) THEN DocRun(DocStep(d, ln, lns[ln + 1]), ln + 1, lns) ELSE d

\* The for loop of tokenizeDocument over lines already split.
TokenizeLines(lns) == DocRun(<<>>, 0, lns)

tokenizeDocument(txt) == TokenizeLines(split(txt))

InitDoc ==
  /\ \E n \in 0..MaxDocLen : docText \in SeqsOfLen(DocAlphabet, n)
  /\ lines = split(docText)
  /\ line = 0
  /\ data = <<>>
  /\ docPc = "loop"
  /\ LexIdle
  /\ HintIdle
  /\ ModelIdle

DocLooping == docPc = "loop" /\ line < Len(lines)

\* A line of whitespace only: continue.
DocSkipBlank ==
  /\ DocLooping
  /\ IsBlankLine(lines[line + 1])
  /\ data' = DocStep(data, line, lines[line + 1])
  /\ line' = line + 1
  /\ UNCHANGED <<docText, lines, docPc, lexVars, hintVars, modelVars>>

\* An empty line: neither if is taken.
DocSkipEmpty ==
  /\ DocLooping
  /\ Len(lines[line + 1]) = 0
  /\ data' = DocStep(data, line, lines[line + 1])
  /\ line' = line + 1
  /\ UNCHANGED <<docText, lines, docPc, lexVars, hintVars, modelVars>>

\* Any other line is tokenized and stored under its index.
DocTokenize ==
  /\ DocLooping
  /\ Len(lines[line + 1]) > 0
  /\ ~IsBlankLine(lines[line + 1])
  /\ data' = DocStep(data, line, lines[line + 1])
  /\ line' = line + 1
  /\ UNCHANGED <<docText, lines, docPc, lexVars, hintVars, modelVars>>

DocReturn ==
  /\ docPc = "loop"
  /\ line >= Len(lines)
  /\ docPc' = "done"
  /\ UNCHANGED <<docText, lines, line, data, lexVars, hintVars, modelVars>>

NextDoc ==
  \/ DocSkipBlank
  \/ DocSkipEmpty
  \/ DocTokenize
  \/ DocReturn

SpecDoc == InitDoc /\ [][NextDoc]_vars

----------------------------------------------------------------------------
\* Claims about tokenizeDocument, checked under SpecDoc.

\* The indices (1-based) of the LF characters of txt, in order.
LFs(txt) == {p \in 1..Len(txt) : txt[p] = LF}

\* Index of the first character of line n (zero-based) of txt: one past the
\* n-th LF.
LineFirst(txt, n) ==
  IF n = 0 THEN 1
  ELSE 1 + (CHOOSE p \in LFs(txt) : Cardinality({q \in LFs(txt) : q <= p}) = n)

\* Index of the last character of line n of txt: the one before the LF that
\* ends the line, or before the CR LF that ends it; the end of the text for
\* the last line.
LineLast(txt, n) ==
  IF n = Cardinality(LFs(txt)) THEN Len(txt)
  ELSE LET lf == CHOOSE p \in LFs(txt) : Cardinality({q \in LFs(txt) : q <= p}) = n + 1
       IN IF lf - 1 >= LineFirst(txt, n) /\ txt[lf - 1] = CR THEN lf - 2 ELSE lf - 1

\* Line n of txt after splitting on LF or CR LF.
LineOf(txt, n) == SubSeq(txt, LineFirst(txt, n), LineLast(txt, n))

\* Whether a line holds a character that is not whitespace.
HasNonWhitespace(l) == \E p \in 1..Len(l) : l[p] \notin {SP, TAB, CR, LF, FF}

\* C6: the table tokenizeDocument returns has a key n exactly for the lines n
\* that hold a non-whitespace character, the value at n is tokenizeLine of
\* line n and is not empty.
C6_DocumentKeys ==
  docPc = "done" =>
    /\ DOMAIN data = {n \in 0..Cardinality(LFs(docText)) : HasNonWhitespace(LineOf(docText, n))}
    /\ \A n \in DOMAIN data :
         /\ data[n] = tokenizeLine(LineOf(docText, n))
         /\ Len(data[n]) > 0

\* C6 witness: a returned table that has a key after an omitted blank line and
\* itself omits line 0.
C6_Witness ==
  /\ docPc = "done"
  /\ \E n \in DOMAIN data : n >= 2 /\ (n - 1) \notin DOMAIN data
  /\ 0 \notin DOMAIN data
  /\ \E p \in 1..Len(docText) : docText[p] = CR

----------------------------------------------------------------------------
\* getHintsFromTokens

\* registerInfo starts with these seven keys, each null.
trackedRegisters == {"x0", "x1", "x2", "x3", "x4", "x5", "x8"}

\* Property names every object inherits from Object.prototype: the `in`
\* operator of isTrackedReg finds them too.
InheritedNames ==
  {"constructor", "toString", "toLocaleString", "valueOf", "hasOwnProperty",
   "isPrototypeOf", "propertyIsEnumerable", "__proto__"}

\* isTrackedReg(s): s in trackedRegisters
isTrackedReg(s) == s \in trackedRegisters \cup InheritedNames

Null == [kind |-> "null"]

\* A JavaScript number: NaN, or the integer n.
NaN == [isNaN |-> TRUE]

Num(n) == [isNaN |-> FALSE, n |-> n]

Digits == <<"0", "1", "2", "3", "4", "5", "6", "7", "8", "9">>

IsDigit(c) == \E d \in 1..10 : Digits[d] = c

DigitValue(c) == (CHOOSE d \in 1..10 : Digits[d] = c) - 1

RECURSIVE DecimalValue(_)
DecimalValue(s) ==
  IF Len(s) = 0 THEN 0
  ELSE 10 * DecimalValue(SubSeq(s, 1, Len(s) - 1)) + DigitValue(s[Len(s)])

\* Number(s) for a string s: 0 for the empty string, the value of a run of
\* decimal digits, NaN for other text. (The lines of the model hold no signed,
\* fractional, exponent or radix-prefixed numerals.)
NumberOfString(s) ==
  IF Len(s) = 0 THEN Num(0)
  ELSE IF \A p \in 1..Len(s) : IsDigit(s[p]) THEN Num(DecimalValue(s))
  ELSE NaN

RECURSIVE SplitHashFrom(_, _, _)
\* str.split('#') from index p on, cur being the piece read so far.
SplitHashFrom(str, p, cur) ==
  IF p > Len(str) THEN <<cur>>
  ELSE IF str[p] = "#" THEN <<cur>> \o SplitHashFrom(str, p + 1, <<>>)
  ELSE SplitHashFrom(str, p + 1, Append(cur, str[p]))

\* getNumberFromImmediate(str): Number(str.split('#')[1]); the piece is
\* undefined, and the number NaN, when str holds no '#'.
getNumberFromImmediate(str) ==
  LET pieces == SplitHashFrom(str, 1, <<>>) IN
  IF Len(pieces) < 2 THEN NaN ELSE NumberOfString(pieces[2])

\* The syscall table: number -> name, argument roles by register (in the
\* order of the object's keys) and description of the value returned in x0.
syscalls ==
  (56 :> [name |-> "openat",
          args |-> << <<"x0", "dirfd">>, <<"x1", "pathname">>,
                      <<"x2", "flags">>, <<"x3", "mode">> >>,
          returns |-> "fd (>=0) or -errno"])
  @@
  (63 :> [name |-> "read",
          args |-> << <<"x0", "fd">>, <<"x1", "buf">>, <<"x2", "count">> >>,
          returns |-> "bytes_read (>=0) or -errno"])
  @@
  (64 :> [name |-> "write",
          args |-> << <<"x0", "fd">>, <<"x1", "buf">>, <<"x2", "count">> >>,
          returns |-> "bytes_written (>=0) or -errno"])
  @@
  (93 :> [name |-> "exit",
          args |-> << <<"x0", "status">> >>,
          returns |-> "(does not return)"])

\* syscalls[number] is defined.
HasSyscall(number) == ~number.isNaN /\ number.n \in DOMAIN syscalls

fdLookup == (0 :> "stdin") @@ (1 :> "stdout") @@ (2 :> "stderr")

\* fdLookup[number] is defined.
HasFd(number) == ~number.isNaN /\ number.n \in DOMAIN fdLookup

Hint(inline) == [inline |-> inline, hover |-> ""]

\* value[k]?.text as a string, "" when the line has no token k (zero-based).
TextAt(value, k) == IF k + 1 <= Len(value) THEN Str(value[k + 1].text) ELSE ""

\* hintsPerLine[ln] ?? []
HintsAt(h, ln) == IF ln \in DOMAIN h THEN h[ln] ELSE <<>>

\* hintsPerLine[ln] = list
SetHints(h, ln, list) ==
  [n \in (DOMAIN h) \cup {ln} |-> IF n = ln THEN list ELSE h[n]]

\* Variant of PushHint: the hint is put at the front of the list (unshift).
PushHint_Unshift(h, ln, hint) == SetHints(h, ln, <<hint>> \o HintsAt(h, ln))

\* existing.push(hint) on the list of line ln, stored back under ln.
PushHint(h, ln, hint) == SetHints(h, ln, Append(HintsAt(h, ln), hint))

\* The text shown for an argument: the descriptor name when the role is fd
\* and the number is a known descriptor, else the value's text.
ArgValue(role, entry) ==
  IF role = "fd" /\ HasFd(getNumberFromImmediate(entry.value))
  THEN fdLookup[getNumberFromImmediate(entry.value).n]
  ELSE Str(entry.value)

RECURSIVE ArgHints_StopAtUnset(_, _, _, _)
\* Variant of ArgHints: the loop is left (break) at the first argument register
\* that holds no value, instead of going on (continue) to the next one.
ArgHints_StopAtUnset(h, regs, args, k) ==
  IF k > Len(args) THEN h
  ELSE LET reg == args[k][1]
           role == args[k][2]
           entry == regs[reg]
       IN IF ~isTrackedReg(reg) \/ entry = Null
          THEN h
          ELSE ArgHints_StopAtUnset(
                 PushHint(h, entry.setLine, Hint(role \o ": " \o ArgValue(role, entry))),
                 regs, args, k + 1)

RECURSIVE ArgHints(_, _, _, _)
\* The loop over Object.keys(syscallEntry.args), from argument k on.
ArgHints(h, regs, args, k) ==
  IF k > Len(args) THEN h
  ELSE LET reg == args[k][1]
           role == args[k][2]
           entry == regs[reg]
       IN IF ~isTrackedReg(reg) \/ entry = Null
          THEN ArgHints(h, regs, args, k + 1)
          ELSE ArgHints(PushHint(h, entry.setLine, Hint(role \o ": " \o ArgValue(role, entry))),
                        regs, args, k + 1)

\* Variant of KnownTrapHints: the x8 hint is pushed onto the svc line's list.
KnownTrapHints_OnSvcLine(h, regs, ln, number) ==
  LET syscallEntry == syscalls[number.n]
      existing == Append(HintsAt(h, ln),
                         Hint("syscall: " \o syscallEntry.name \o " (" \o ToString(number.n) \o ")"))
      h2 == ArgHints(h, regs, syscallEntry.args, 1)
  IN SetHints(h2, ln,
              Append(existing, Hint(syscallEntry.name \o "(args) → " \o syscallEntry.returns)))

\* Variant of KnownTrapHints: the list of the svc line is stored back without
\* the summary hint pushed onto it.
KnownTrapHints_NoSummary(h, regs, ln, number) ==
  LET syscallEntry == syscalls[number.n]
      existing == HintsAt(h, ln)
      x8Entry == regs["x8"]
      h1 == PushHint(h, x8Entry.setLine,
                     Hint("syscall: " \o syscallEntry.name \o " (" \o ToString(number.n) \o ")"))
      h2 == ArgHints(h1, regs, syscallEntry.args, 1)
  IN SetHints(h2, ln, existing)

\* The x8 hint, the argument hints and the hint on the svc line, for a trap
\* whose x8 value decodes to a number of the syscall table. (The svc line is
\* never a register's setLine, so `existing` is no list the pushes extend.)
KnownTrapHints(h, regs, ln, number) ==
  LET syscallEntry == syscalls[number.n]
      existing == HintsAt(h, ln)
      x8Entry == regs["x8"]
      h1 == PushHint(h, x8Entry.setLine,
                     Hint("syscall: " \o syscallEntry.name \o " (" \o ToString(number.n) \o ")"))
      h2 == ArgHints(h1, regs, syscallEntry.args, 1)
  IN SetHints(h2, ln,
              Append(existing, Hint(syscallEntry.name \o "(args) → " \o syscallEntry.returns)))

\* Variant of TrapHints: the push onto the svc line's list is outside the test
\* of x8Entry, so it happens (with an empty text) when x8 is null too.
TrapHints_PushOutside(h, regs, ln) ==
  LET x8Entry == regs["x8"] IN
  IF x8Entry = Null THEN SetHints(h, ln, Append(HintsAt(h, ln), Hint("")))
  ELSE IF ~HasSyscall(getNumberFromImmediate(x8Entry.value)) THEN h
  ELSE KnownTrapHints(h, regs, ln, getNumberFromImmediate(x8Entry.value))

\* Variant of TrapHints: when the number is not in the table the svc line
\* still gets its hint, with the empty text.
TrapHints_UnknownSummary(h, regs, ln) ==
  LET x8Entry == regs["x8"] IN
  IF x8Entry = Null THEN SetHints(h, ln, HintsAt(h, ln))
  ELSE IF ~HasSyscall(getNumberFromImmediate(x8Entry.value))
       THEN SetHints(h, ln, Append(HintsAt(h, ln), Hint("")))
  ELSE KnownTrapHints(h, regs, ln, getNumberFromImmediate(x8Entry.value))

\* An `svc #0` line: nothing but an empty list for the line when x8 is null,
\* nothing at all (continue) when the number is not in the table.
TrapHints(h, regs, ln) ==
  LET x8Entry == regs["x8"] IN
  IF x8Entry = Null THEN SetHints(h, ln, HintsAt(h, ln))
  ELSE IF ~HasSyscall(getNumberFromImmediate(x8Entry.value)) THEN h
  ELSE KnownTrapHints(h, regs, ln, getNumberFromImmediate(x8Entry.value))

\* Variant of BadTrapHints: the hint is pushed whether x8 is set or not.
BadTrapHints_Always(h, regs, ln) ==
  SetHints(h, ln, Append(HintsAt(h, ln), Hint("expects #0")))

\* An svc line whose second token is not "#0".
BadTrapHints(h, regs, ln) ==
  SetHints(h, ln,
           IF regs["x8"] # Null
           THEN Append(HintsAt(h, ln), Hint("expects #0"))
           ELSE HintsAt(h, ln))

\* Variant of SvcHints: every line that is not a mov is taken for an svc.
SvcHints_NoMnemonicTest(h, regs, ln, value) ==
  IF TextAt(value, 0) = "mov" THEN h
  ELSE IF TextAt(value, 1) = "#0" THEN TrapHints(h, regs, ln)
  ELSE BadTrapHints(h, regs, ln)

\* The hints after a line whose tokens are value.
SvcHints(h, regs, ln, value) ==
  IF TextAt(value, 0) # "svc" THEN h
  ELSE IF TextAt(value, 1) = "#0" THEN TrapHints(h, regs, ln)
  ELSE BadTrapHints(h, regs, ln)

\* A line is mov into a name isTrackedReg accepts.
IsTrackedMov(value) == TextAt(value, 0) = "mov" /\ isTrackedReg(TextAt(value, 1))

\* if (!nextToken) throw new Error('Missing token')
MissingToken(value) == IsTrackedMov(value) /\ Len(value) < 4

\* registerInfo[name] = entry; assigning __proto__ sets the prototype and
\* leaves the object's own properties as they are.
SetRegister(regs, name, entry) ==
  IF name = "__proto__" THEN regs
  ELSE [r \in (DOMAIN regs) \cup {name} |-> IF r = name THEN entry ELSE regs[r]]

\* Variant of MovRegisters: a register that holds a value keeps it.
MovRegisters_KeepFirst(regs, ln, value) ==
  IF ~IsTrackedMov(value) THEN regs
  ELSE IF TextAt(value, 1) \in DOMAIN regs /\ regs[TextAt(value, 1)] # Null THEN regs
  ELSE LET nextToken == value[4] IN
       SetRegister(regs, TextAt(value, 1),
                   [kind |-> "imm", value |-> nextToken.text, setLine |-> ln,
                    startCol |-> nextToken.startCol, endCol |-> nextToken.endCol])

\* The register state after a line whose tokens are value (which has a token
\* at index 3 when it is a mov into a tracked name).
MovRegisters(regs, ln, value) ==
  IF ~IsTrackedMov(value) THEN regs
  ELSE LET nextToken == value[4] IN
       SetRegister(regs, TextAt(value, 1),
                   [kind |-> "imm", value |-> nextToken.text, setLine |-> ln,
                    startCol |-> nextToken.startCol, endCol |-> nextToken.endCol])

\* Variant of Visit: a missing value token is read as an empty value and the
\* pass goes on.
Visit_Fabricate(h, regs, ln, value) ==
  IF MissingToken(value)
  THEN [pc |-> "loop", hints |-> SvcHints(h, regs, ln, value),
        regs |-> SetRegister(regs, TextAt(value, 1),
                             [kind |-> "imm", value |-> <<>>, setLine |-> ln,
                              startCol |-> 0, endCol |-> 0])]
  ELSE [pc |-> "loop", hints |-> SvcHints(h, regs, ln, value),
        regs |-> MovRegisters(regs, ln, value)]

\* One iteration of the for loop on the entry (ln, value): the svc branch,
\* then the mov branch, which throws when the value token is missing.
Visit(h, regs, ln, value) ==
  IF MissingToken(value)
  THEN [pc |-> "threw", hints |-> SvcHints(h, regs, ln, value), regs |-> regs]
  ELSE [pc |-> "loop", hints |-> SvcHints(h, regs, ln, value),
        regs |-> MovRegisters(regs, ln, value)]

RECURSIVE SortedKeys(_)
\* Integer keys in ascending order: the order in which Object.entries visits
\* the keys of the token table.
SortedKeys(S) ==
  IF S = {} THEN <<>>
  ELSE LET m == CHOOSE x \in S : \A y \in S : x <= y
       IN <<m>> \o SortedKeys(S \ {m})

\* Variant of Entries: the keys in descending order.
Entries_Descending(d) ==
  LET asc == SortedKeys(DOMAIN d) IN [k \in 1..Len(asc) |-> asc[Len(asc) + 1 - k]]

\* Object.entries(data), as the sequence of its keys.
Entries(d) == SortedKeys(DOMAIN d)

InitRegisterInfo == [r \in trackedRegisters |-> Null]

----------------------------------------------------------------------------
\* The analyzer as a state machine: one action per line visited.

\* The end-to-end scenario of the specification.
DocWrite == <<LineX8Write, LineX0One, LineX1Buf, LineX2Count, LineSvc0>>

\* A trap followed by a new assignment of x8, with a blank line in between.
DocForward == <<LineX8Write, LineEmpty, LineSvc0, LineX8Exit, LineX0One>>

\* The other two entries of the syscall table.
DocRead == <<LineX0One, LineX8Read, LineSvc0>>

DocOpenat == <<LineX8Openat, LineX1Buf, LineSvc0>>

\* x0 assigned `#`, a number that is no descriptor, and a register name.
DocFdEmpty == <<LineX8Write, LineX0Hash, LineSvc0>>

DocFdOther == <<LineX8Write, LineX0Five, LineSvc0>>

DocFdReg == <<LineX8Read, LineX0Reg, LineSvc0>>

\* x8 assigned `#`.
DocX8Empty == <<LineX8Hash, LineX0One, LineSvc0>>

\* x0 assigned twice before the trap.
DocReassign == <<LineX8Write, LineX0Five, LineX0One, LineSvc0>>

\* Two traps with no mov in between.
DocTwice == <<LineX8Write, LineX0One, LineSvc0, LineSvc0>>

\* Two traps of different syscalls that read the same assignment of x0.
DocOrder == <<LineX0One, LineX8Write, LineSvc0, LineX8Exit, LineSvc0>>

ExampleDocs ==
  {DocWrite, DocForward, DocRead, DocOpenat, DocFdEmpty, DocFdOther, DocFdReg,
   DocX8Empty, DocReassign, DocTwice, DocOrder}


\* The tokens of the entry being visited.
CurrentKey == Entries(tokensByLine)[entryIdx + 1]

CurrentValue == tokensByLine[CurrentKey]

InitHints ==
  /\ \/ \E n \in 0..MaxDocLines :
          \E doc \in SeqsOfLen(LinePool, n) : tokensByLine = TokenizeLines(doc)
     \/ \E doc \in ExampleDocs : tokensByLine = TokenizeLines(doc)
  /\ entryIdx = 0
  /\ lineNumber = -1
  /\ registerInfo = InitRegisterInfo
  /\ hintsPerLine = <<>>
  /\ hintPc = "loop"
  /\ LexIdle
  /\ DocIdle
  /\ ModelIdle

Visiting == hintPc = "loop" /\ entryIdx < Len(Entries(tokensByLine))

\* One iteration of the for loop.
VisitLine ==
  LET v == Visit(hintsPerLine, registerInfo, CurrentKey, CurrentValue) IN
  /\ lineNumber' = CurrentKey
  /\ entryIdx' = entryIdx + 1
  /\ hintsPerLine' = v.hints
  /\ registerInfo' = v.regs
  /\ hintPc' = v.pc
  /\ UNCHANGED <<tokensByLine, lexVars, docVars, modelVars>>

\* svc #0
HintTrap ==
  /\ Visiting
  /\ TextAt(CurrentValue, 0) = "svc"
  /\ TextAt(CurrentValue, 1) = "#0"
  /\ VisitLine

\* svc with any other operand, or none
HintBadTrap ==
  /\ Visiting
  /\ TextAt(CurrentValue, 0) = "svc"
  /\ TextAt(CurrentValue, 1) # "#0"
  /\ VisitLine

\* mov into a tracked name, with a token at index 3
HintMov ==
  /\ Visiting
  /\ IsTrackedMov(CurrentValue)
  /\ ~MissingToken(CurrentValue)
  /\ VisitLine

\* mov into a tracked name without a token at index 3: throw
HintMovThrow ==
  /\ Visiting
  /\ MissingToken(CurrentValue)
  /\ VisitLine

\* any other line
HintOther ==
  /\ Visiting
  /\ TextAt(CurrentValue, 0) # "svc"
  /\ ~IsTrackedMov(CurrentValue)
  /\ VisitLine

\* return hintsPerLine
HintReturn ==
  /\ hintPc = "loop"
  /\ entryIdx >= Len(Entries(tokensByLine))
  /\ hintPc' = "returned"
  /\ UNCHANGED <<tokensByLine, entryIdx, lineNumber, registerInfo, hintsPerLine, lexVars, docVars, modelVars>>

NextHints ==
  \/ HintTrap
  \/ HintBadTrap
  \/ HintMov
  \/ HintMovThrow
  \/ HintOther
  \/ HintReturn

SpecHints == InitHints /\ [][NextHints]_vars

----------------------------------------------------------------------------
\* The Model: the token table of each synced document, and the hints of one.

RECURSIVE HintRun(_, _, _)
\* The for loop of getHintsFromTokens over the entries of d from entry k on;
\* st is the pass so far, [pc, hints, regs].
HintRun(st, d, k) ==
  IF st.pc # "loop" \/ k > Len(Entries(d)) THEN st
  ELSE HintRun(Visit(st.hints, st.regs, Entries(d)[k], d[Entries(d)[k]]), d, k + 1)

\* getHintsFromTokens as a function of its argument: how the call ends and
\* the hints it has then.
getHintsFromTokens(d) ==
  LET r == HintRun([pc |-> "loop", hints |-> <<>>, regs |-> InitRegisterInfo], d, 1)
  IN [pc |-> IF r.pc = "loop" THEN "returned" ELSE r.pc, hints |-> r.hints]

\* Variant of CallRegisterInfo: registerInfo is created once and kept from one
\* call to the next.
CallRegisterInfo_ModuleLevel(prev) == IF prev = <<>> THEN InitRegisterInfo ELSE prev

\* The registerInfo a call starts with, prev being that of the call before:
\* the object literal is evaluated anew inside the function.
CallRegisterInfo(prev) == InitRegisterInfo

\* Variant of SyncStructure: the new table is merged into the one stored.
SyncStructure_Merge(st, u, txt) ==
  [v \in (DOMAIN st) \cup {u} |->
     IF v # u THEN st[v]
     ELSE IF u \in DOMAIN st
          THEN [tokens |-> tokenizeDocument(txt) @@ st[u].tokens]
          ELSE [tokens |-> tokenizeDocument(txt)]]

\* structure[e.document.uri] = { tokens: tokenizeDocument(text) }
SyncStructure(st, u, txt) ==
  [v \in (DOMAIN st) \cup {u} |->
     IF v = u THEN [tokens |-> tokenizeDocument(txt)] ELSE st[v]]

RECURSIVE JoinLines(_)
\* The text whose lines are lns.
JoinLines(lns) ==
  IF lns = <<>> THEN <<>>
  ELSE IF Len(lns) = 1 THEN lns[1]
  ELSE lns[1] \o <<LF>> \o JoinLines(Tail(lns))

UriA == "file:///a.s"

UriB == "file:///b.s"

Uris == {UriA, UriB}

\* The texts documents are synced with.
TextWrite == JoinLines(<<LineX8Write>>)

TextTrap == JoinLines(<<LineSvc0>>)

TextRead == JoinLines(DocRead)

TextGap == JoinLines(<<LineX8Exit, LineEmpty, LineSvc1, LineAdd>>)

TextMalformed == JoinLines(<<LineX8Write, LineMovNoValue>>)

ModelTexts == {TextWrite, TextTrap, TextRead, TextGap, TextMalformed}

InitModel ==
  /\ ModelIdle
  /\ LexIdle
  /\ DocIdle
  /\ HintIdle

\* No call of getHintsFromTokens is on the stack.
NoCall == hintPc # "loop"

handleSync(u, txt) ==
  /\ NoCall
  /\ structure' = SyncStructure(structure, u, txt)
  /\ lastText' = [v \in (DOMAIN lastText) \cup {u} |-> IF v = u THEN txt ELSE lastText[v]]
  /\ UNCHANGED <<uri, lexVars, docVars, hintVars>>

HandleSync == \E u \in Uris, txt \in ModelTexts : handleSync(u, txt)

\* getTokensForFileByUri(u) when structure has nothing for u: return []
GetUnsynced ==
  \E u \in Uris :
    /\ NoCall
    /\ u \notin DOMAIN structure
    /\ uri' = u
    /\ tokensByLine' = <<>>
    /\ entryIdx' = 0
    /\ lineNumber' = -1
    /\ hintsPerLine' = <<>>
    /\ hintPc' = "returned"
    /\ UNCHANGED <<registerInfo, structure, lastText, lexVars, docVars>>

\* getTokensForFileByUri(u) otherwise: getHintsFromTokens(res.tokens) begins.
GetHints ==
  \E u \in Uris :
    /\ NoCall
    /\ u \in DOMAIN structure
    /\ uri' = u
    /\ tokensByLine' = structure[u].tokens
    /\ entryIdx' = 0
    /\ lineNumber' = -1
    /\ registerInfo' = CallRegisterInfo(registerInfo)
    /\ hintsPerLine' = <<>>
    /\ hintPc' = "loop"
    /\ UNCHANGED <<structure, lastText, lexVars, docVars>>

NextModel ==
  \/ HandleSync
  \/ GetUnsynced
  \/ GetHints
  \/ NextHints

SpecModel == InitModel /\ [][NextModel]_vars

----------------------------------------------------------------------------
\* Claims about getHintsFromTokens, checked under SpecHints.

\* The pass is running or has returned (it has not thrown).
PassAlive == hintPc \in {"loop", "returned"}

\* The tokens of a line are a mov whose second token is the name r.
IsMovInto(value, r) == TextAt(value, 0) = "mov" /\ TextAt(value, 1) = r

IsSvc0(value) == TextAt(value, 0) = "svc" /\ TextAt(value, 1) = "#0"

\* The lines up to line ln that are a mov into r with a token at index 3.
MovLines(r, ln) ==
  {l \in DOMAIN tokensByLine : l <= ln /\ IsMovInto(tokensByLine[l], r) /\ Len(tokensByLine[l]) >= 4}

\* The greatest element of a non-empty set of integers.
Greatest(S) == CHOOSE x \in S : \A y \in S : y <= x

\* The least key of the token table above ln.
KeyAfter(ln) ==
  CHOOSE k \in DOMAIN tokensByLine :
    k > ln /\ \A j \in DOMAIN tokensByLine : j > ln => k <= j

HasKeyAfter(ln) == \E k \in DOMAIN tokensByLine : k > ln

\* s is t with hints added at the end, or t.
IsPrefix(t, s) == Len(t) <= Len(s) /\ SubSeq(s, 1, Len(t)) = t

\* How many hints of list have the inline text txt.
CountInline(list, txt) == Cardinality({k \in 1..Len(list) : list[k].inline = txt})

\* The pass has visited exactly the keys up to lineNumber, and what it knows
\* of each register is the last mov into it among those lines.
C7_State ==
  hintPc # "idle" =>
    /\ entryIdx = Cardinality({k \in DOMAIN tokensByLine : k <= lineNumber})
    /\ PassAlive =>
         \A r \in DOMAIN registerInfo :
           IF MovLines(r, lineNumber) = {} THEN registerInfo[r] = Null
           ELSE LET l == Greatest(MovLines(r, lineNumber)) IN
                /\ registerInfo[r] # Null
                /\ registerInfo[r].setLine = l
                /\ registerInfo[r].value = tokensByLine[l][4].text

\* A step visits the least key not yet visited, never takes a hint away, adds
\* hints only to the line it visits and to lines below it, and adds none
\* when the line it visits is a mov.
C7_Step ==
  (hintPc = "loop" /\ HasKeyAfter(lineNumber)) =>
    /\ lineNumber' = KeyAfter(lineNumber)
    /\ \A l \in DOMAIN hintsPerLine :
         l \in DOMAIN hintsPerLine' /\ IsPrefix(hintsPerLine[l], hintsPerLine'[l])
    /\ \A l \in DOMAIN hintsPerLine' :
         HintsAt(hintsPerLine, l) # hintsPerLine'[l] => l <= lineNumber'
    /\ TextAt(tokensByLine[lineNumber'], 0) = "mov" => hintsPerLine' = hintsPerLine

\* C7: the lines are visited in ascending line-number order, and the hints of
\* an svc line rest on the mov lines below it only: a later mov changes no
\* hint already produced.
C7_ForwardOnly == []C7_State /\ [][C7_Step]_vars

\* C7 witness: x8 was assigned again after a trap that produced a hint for the
\* earlier assignment, in a table that has a gap in its line numbers.
C7_Witness ==
  /\ PassAlive
  /\ lineNumber \in DOMAIN tokensByLine
  /\ IsMovInto(tokensByLine[lineNumber], "x8")
  /\ registerInfo["x8"] # Null
  /\ registerInfo["x8"].setLine = lineNumber
  /\ \E l \in DOMAIN hintsPerLine :
       /\ l < lineNumber
       /\ IsMovInto(tokensByLine[l], "x8")
       /\ Len(hintsPerLine[l]) = 1
  /\ \E g \in 0..lineNumber : g \notin DOMAIN tokensByLine

\* C8: a step that visits an `svc #0` line below which no line is a mov into
\* x8 gives the svc line an empty hint list and changes the hints of no other
\* line.
C8_UnsetSilence ==
  [][ (/\ hintPc = "loop"
       /\ HasKeyAfter(lineNumber)
       /\ IsSvc0(tokensByLine[KeyAfter(lineNumber)])
       /\ \A l \in DOMAIN tokensByLine : l <= lineNumber => ~IsMovInto(tokensByLine[l], "x8"))
      => /\ HintsAt(hintsPerLine', KeyAfter(lineNumber)) = <<>>
         /\ \A l \in (DOMAIN hintsPerLine) \cup (DOMAIN hintsPerLine') :
              l # KeyAfter(lineNumber) =>
                /\ l \in DOMAIN hintsPerLine
                /\ l \in DOMAIN hintsPerLine'
                /\ hintsPerLine'[l] = hintsPerLine[l]
         /\ registerInfo' = registerInfo
         /\ hintPc' = "loop" ]_vars

\* C8 witness: an `svc #0` line was visited with x0 assigned and x8 not, and
\* has no hint.
C8_Witness ==
  /\ PassAlive
  /\ lineNumber \in DOMAIN tokensByLine
  /\ IsSvc0(tokensByLine[lineNumber])
  /\ registerInfo["x8"] = Null
  /\ registerInfo["x0"] # Null
  /\ HintsAt(hintsPerLine, lineNumber) = <<>>
  /\ \A l \in DOMAIN hintsPerLine : hintsPerLine[l] = <<>>

\* C9: a step that visits a line `mov <tracked register>` with no token at
\* index 3 ends the pass with the thrown error and leaves the registers and
\* the hints as they were.
C9_MalformedMov ==
  [][ (/\ hintPc = "loop"
       /\ HasKeyAfter(lineNumber)
       /\ \E r \in trackedRegisters : IsMovInto(tokensByLine[KeyAfter(lineNumber)], r)
       /\ Len(tokensByLine[KeyAfter(lineNumber)]) < 4)
      => /\ hintPc' = "threw"
         /\ lineNumber' = KeyAfter(lineNumber)
         /\ registerInfo' = registerInfo
         /\ hintsPerLine' = hintsPerLine ]_vars

\* C9 witness: the pass threw on `mov x0,` after x8 had been assigned.
C9_Witness ==
  /\ hintPc = "threw"
  /\ tokensByLine[lineNumber] = tokenizeLine(LineMovNoValue)
  /\ registerInfo["x8"] # Null
  /\ registerInfo["x0"] = Null

\* The x8 hint of each entry of the syscall table.
SyscallText ==
  (56 :> "syscall: openat (56)") @@ (63 :> "syscall: read (63)") @@
  (64 :> "syscall: write (64)") @@ (93 :> "syscall: exit (93)")

\* C10: a step that visits an `svc #0` line while the last mov into x8 holds
\* an immediate that decodes to 56, 63, 64 or 93 adds exactly one hint to the
\* line of that mov, the hint "syscall: <name> (<number>)", and adds no such
\* hint to the svc line.
C10_SyscallHint ==
  [][ (/\ hintPc = "loop"
       /\ HasKeyAfter(lineNumber)
       /\ IsSvc0(tokensByLine[KeyAfter(lineNumber)])
       /\ MovLines("x8", lineNumber) # {}
       /\ HasSyscall(getNumberFromImmediate(
            tokensByLine[Greatest(MovLines("x8", lineNumber))][4].text)))
      => LET l8 == Greatest(MovLines("x8", lineNumber))
             txt == SyscallText[getNumberFromImmediate(tokensByLine[l8][4].text).n]
             svcLine == KeyAfter(lineNumber)
         IN /\ l8 \in DOMAIN hintsPerLine'
            /\ hintsPerLine'[l8] = Append(HintsAt(hintsPerLine, l8), Hint(txt))
            /\ CountInline(HintsAt(hintsPerLine', svcLine), txt) = 0 ]_vars

\* C10 witness: an `svc #0` line was visited and the line of `mov x8, #64`
\* carries "syscall: write (64)".
C10_Witness ==
  /\ PassAlive
  /\ lineNumber \in DOMAIN tokensByLine
  /\ IsSvc0(tokensByLine[lineNumber])
  /\ registerInfo["x8"] # Null
  /\ registerInfo["x8"].value = <<"#", "6", "4">>
  /\ HintsAt(hintsPerLine, registerInfo["x8"].setLine) = <<Hint("syscall: write (64)")>>
  /\ CountInline(HintsAt(hintsPerLine, lineNumber), "syscall: write (64)") = 0
  /\ Len(HintsAt(hintsPerLine, lineNumber)) = 1

\* The next step visits an `svc #0` line while the last mov into x8 holds an
\* immediate that decodes to a number of the syscall table.
KnownTrap ==
  /\ hintPc = "loop"
  /\ HasKeyAfter(lineNumber)
  /\ IsSvc0(tokensByLine[KeyAfter(lineNumber)])
  /\ MovLines("x8", lineNumber) # {}
  /\ HasSyscall(getNumberFromImmediate(
       tokensByLine[Greatest(MovLines("x8", lineNumber))][4].text))

\* The argument descriptors <<register, role>> of the syscall of that trap.
TrapArgs ==
  syscalls[getNumberFromImmediate(
             tokensByLine[Greatest(MovLines("x8", lineNumber))][4].text).n].args

\* The argument descriptors whose register has a mov below the svc line.
AssignedArgs == {k \in 1..Len(TrapArgs) : MovLines(TrapArgs[k][1], lineNumber) # {}}

\* The line and the value text of the last mov into the register of argument k.
ArgLine(k) == Greatest(MovLines(TrapArgs[k][1], lineNumber))

ArgText(k) == tokensByLine[ArgLine(k)][4].text

\* The names a file descriptor can be shown by.
FdNames == {"stdin", "stdout", "stderr"}

\* C11: a step that visits an `svc #0` line of a known syscall appends exactly
\* one hint "<role>: <value>" to the line of the last mov into each argument
\* register the syscall names that has one, one hint to the x8 line and one to
\* the svc line, and changes the hints of no other line: an argument register
\* without a mov, and a register the syscall does not name, get no hint.
C11_ArgumentHints ==
  [][ KnownTrap =>
        LET l8 == Greatest(MovLines("x8", lineNumber))
            svcLine == KeyAfter(lineNumber)
            argLines == {ArgLine(k) : k \in AssignedArgs}
        IN /\ \A k \in AssignedArgs :
                /\ Len(HintsAt(hintsPerLine', ArgLine(k)))
                     = Len(HintsAt(hintsPerLine, ArgLine(k))) + 1
                /\ IsPrefix(HintsAt(hintsPerLine, ArgLine(k)), HintsAt(hintsPerLine', ArgLine(k)))
                /\ LET added == HintsAt(hintsPerLine', ArgLine(k))[
                                  Len(HintsAt(hintsPerLine, ArgLine(k))) + 1].inline
                       role == TrapArgs[k][2]
                   IN \/ added = role \o ": " \o Str(ArgText(k))
                      \/ \E f \in FdNames : added = role \o ": " \o f
           /\ Len(HintsAt(hintsPerLine', l8)) = Len(HintsAt(hintsPerLine, l8)) + 1
           /\ Len(HintsAt(hintsPerLine', svcLine)) = Len(HintsAt(hintsPerLine, svcLine)) + 1
           /\ \A l \in (DOMAIN tokensByLine) \cup (DOMAIN hintsPerLine') :
                l \notin argLines \cup {l8, svcLine} =>
                  HintsAt(hintsPerLine', l) = HintsAt(hintsPerLine, l) ]_vars

\* C11 witness: a write trap was visited with x1 assigned and x0 not: the x1
\* line carries "buf: #20", the x8 line and the svc line carry their hint.
C11_Witness ==
  /\ PassAlive
  /\ lineNumber \in DOMAIN tokensByLine
  /\ IsSvc0(tokensByLine[lineNumber])
  /\ registerInfo["x8"] # Null
  /\ registerInfo["x8"].value = <<"#", "6", "4">>
  /\ registerInfo["x0"] = Null
  /\ registerInfo["x1"] # Null
  /\ HintsAt(hintsPerLine, registerInfo["x1"].setLine) = <<Hint("buf: #20")>>
  /\ Len(HintsAt(hintsPerLine, registerInfo["x8"].setLine)) = 1
  /\ Len(HintsAt(hintsPerLine, lineNumber)) = 1

\* The value text v is the immediate of the number n below ten: a `#`, zeros
\* or none, and the digit of n.
IsImmediateOf(v, n) ==
  /\ Len(v) >= 2
  /\ v[1] = "#"
  /\ \A k \in 2..(Len(v) - 1) : v[k] = "0"
  /\ v[Len(v)] = ToString(n)

\* The text shown for a value v in the role `role`: the descriptor name when
\* the role is fd and v is the immediate of 0, 1 or 2, else v itself.
ShownValue(role, v) ==
  IF role = "fd" /\ IsImmediateOf(v, 0) THEN "stdin"
  ELSE IF role = "fd" /\ IsImmediateOf(v, 1) THEN "stdout"
  ELSE IF role = "fd" /\ IsImmediateOf(v, 2) THEN "stderr"
  ELSE Str(v)

\* C12: the hint a step appends for an argument register at a known trap
\* shows the descriptor name exactly when the role is fd and the value is an
\* immediate that decodes to 0, 1 or 2, and the raw text of the value in
\* every other case.
C12_ShownValue ==
  [][ KnownTrap =>
        \A k \in AssignedArgs :
          /\ Len(HintsAt(hintsPerLine', ArgLine(k))) > Len(HintsAt(hintsPerLine, ArgLine(k)))
          /\ HintsAt(hintsPerLine', ArgLine(k))[Len(HintsAt(hintsPerLine, ArgLine(k))) + 1].inline
               = TrapArgs[k][2] \o ": " \o ShownValue(TrapArgs[k][2], ArgText(k)) ]_vars

\* The hint of the svc line for each entry of the syscall table.
SummaryText ==
  (56 :> "openat(args) → fd (>=0) or -errno") @@
  (63 :> "read(args) → bytes_read (>=0) or -errno") @@
  (64 :> "write(args) → bytes_written (>=0) or -errno") @@
  (93 :> "exit(args) → (does not return)")

\* A step that visits an `svc #0` line of a known syscall appends to the svc
\* line exactly the hint "<name>(args) → <return description of x0>".
C13_Step ==
  KnownTrap =>
    LET svcLine == KeyAfter(lineNumber)
        number == getNumberFromImmediate(
                    tokensByLine[Greatest(MovLines("x8", lineNumber))][4].text).n
    IN /\ svcLine \in DOMAIN hintsPerLine'
       /\ hintsPerLine'[svcLine]
            = Append(HintsAt(hintsPerLine, svcLine), Hint(SummaryText[number]))

\* The pass over the five-line write scenario returns hints on exactly the
\* lines 0, 1, 2, 3 and 4.
C13_Scenario ==
  (hintPc = "returned" /\ tokensByLine = TokenizeLines(DocWrite)) =>
    /\ DOMAIN hintsPerLine = 0..4
    /\ hintsPerLine[0] = <<Hint("syscall: write (64)")>>
    /\ hintsPerLine[1] = <<Hint("fd: stdout")>>
    /\ hintsPerLine[2] = <<Hint("buf: #20")>>
    /\ hintsPerLine[3] = <<Hint("count: #13")>>
    /\ hintsPerLine[4] = <<Hint("write(args) → bytes_written (>=0) or -errno")>>

\* C13: every `svc #0` of a known syscall gets exactly one hint
\* "<name>(args) → <return description of x0>" on the svc line, and the
\* five-line write scenario ends with hints on exactly lines 0 to 4.
C13_SummaryHint == [][C13_Step]_vars /\ []C13_Scenario

\* C13 witness: the pass over the five-line write scenario has returned with
\* the summary hint on line 4.
C13_Witness ==
  /\ hintPc = "returned"
  /\ tokensByLine = TokenizeLines(DocWrite)
  /\ lineNumber = 4
  /\ HintsAt(hintsPerLine, 4) = <<Hint("write(args) → bytes_written (>=0) or -errno")>>
  /\ \A l \in 0..3 : Len(HintsAt(hintsPerLine, l)) = 1

\* The seven registers a call tracks.
SevenRegisters == {"x0", "x1", "x2", "x3", "x4", "x5", "x8"}

\* A call of getHintsFromTokens begins with every register unset, and while
\* it runs neither its token table nor the stored tables change.
C14_Step ==
  /\ (hintPc # "loop" /\ hintPc' = "loop") =>
       /\ DOMAIN registerInfo' = SevenRegisters
       /\ \A r \in SevenRegisters : registerInfo'[r] = Null
       /\ hintsPerLine' = <<>>
  /\ hintPc = "loop" => (tokensByLine' = tokensByLine /\ structure' = structure)

\* What a call ended with is what the token table alone determines.
C14_Result ==
  /\ hintPc = "returned" => hintsPerLine = getHintsFromTokens(tokensByLine).hints
  /\ hintPc = "threw" => getHintsFromTokens(tokensByLine).pc = "threw"

\* C14: getHintsFromTokens is a function of its token table: every call
\* starts with the seven registers unset, ends with the hints the table
\* alone determines whatever calls were made before it (so two calls with
\* the same table return equal hints), and leaves the table as it was.
C14_PureFunction == [][C14_Step]_vars /\ []C14_Result

\* C14 witness: a call on the one-line table of `svc #0`, stored for one URI,
\* has returned with x8 unset and no hint for any line, while the table of
\* `mov x8, #64` is stored for the other URI.
C14_Witness ==
  /\ hintPc = "returned"
  /\ uri = UriB
  /\ UriA \in DOMAIN structure
  /\ structure[UriA].tokens = tokenizeDocument(TextWrite)
  /\ tokensByLine = tokenizeDocument(TextTrap)
  /\ registerInfo["x8"] = Null
  /\ \A l \in DOMAIN hintsPerLine : hintsPerLine[l] = <<>>

\* The table stored for each URI is tokenizeDocument of the text it was synced
\* with last, and nothing is stored for a URI never synced.
C15_Store ==
  /\ DOMAIN structure = DOMAIN lastText
  /\ \A u \in DOMAIN structure : structure[u] = [tokens |-> tokenizeDocument(lastText[u])]

\* A step leaves the table of every URI it does not sync as it was (so a step
\* that syncs nothing leaves the store unchanged), and a step
\* getTokensForFileByUri returns with has the hints of the table of the text
\* its URI was synced with last, or nothing for a URI never synced.
C15_Step ==
  /\ \A u \in Uris :
       (/\ u \in DOMAIN lastText <=> u \in DOMAIN lastText'
        /\ u \in DOMAIN lastText => lastText'[u] = lastText[u])
       => (/\ u \in DOMAIN structure <=> u \in DOMAIN structure'
           /\ u \in DOMAIN structure => structure'[u] = structure[u])
  /\ (hintPc' = "returned" /\ lastText' = lastText) =>
       hintsPerLine' = IF uri' \in DOMAIN lastText
                       THEN getHintsFromTokens(tokenizeDocument(lastText[uri'])).hints
                       ELSE <<>>

\* C15: after any sequence of handleSync calls the store holds, for each URI,
\* the table of the text of its most recent handleSync, replaced as a whole;
\* a handleSync for one URI leaves the tables of the others unchanged; and
\* getTokensForFileByUri returns the hints of the latest table of its URI
\* (nothing for a URI never synced) without changing the store.
C15_ModelStore == []C15_Store /\ [][C15_Step]_vars

\* C15 witness: the hints of UriA were asked for when it held the three-line
\* read scenario, UriA was then synced with the one-line text `mov x8, #64`,
\* which is all the store holds for it now, and UriB is stored too.
C15_Witness ==
  /\ hintPc = "returned"
  /\ uri = UriA
  /\ tokensByLine = tokenizeDocument(TextRead)
  /\ hintsPerLine = getHintsFromTokens(tokensByLine).hints
  /\ DOMAIN structure = Uris
  /\ DOMAIN structure[UriA].tokens = {0}
  /\ structure[UriA].tokens = tokenizeDocument(TextWrite)
  /\ structure[UriB].tokens = tokenizeDocument(TextGap)

\* A character of operand text: no whitespace, comma or quote.
IsOperandChar(ch) == ch \notin LexWhitespace \cup Quotes \cup {COMMA}

\* The column at which the run of operand characters that ends just before
\* column c begins.
RunStart(txt, c) ==
  CHOOSE s \in 0..c :
    /\ \A d \in s..(c - 1) : IsOperandChar(txt[d + 1])
    /\ s > 0 => ~IsOperandChar(txt[s])

\* C16: when tokenizeLine returns, the operand text that stands right before
\* a quote opening a literal is an ident token of its own that ends at the
\* column of the quote; `abc"def"` gives the ident abc and the string "def".
C16_PendingFlushed ==
  pc = "done" =>
    /\ \A c \in Cols(text) :
         (/\ c > 0
          /\ text[c + 1] \in Quotes
          /\ OpenAt(text, c) = ""
          /\ IsOperandChar(text[c]))
         => \E k \in 1..Len(result) :
              result[k] = Token("ident", SubSeq(text, RunStart(text, c) + 1, c),
                                RunStart(text, c), c)
    /\ text = LineAbcDef =>
         result = <<Token("ident", <<"a", "b", "c">>, 0, 3),
                    Token("string", <<DQ, "d", "e", "f", DQ>>, 3, 8)>>

\* C17: a step of the scan in string mode goes back to the default mode, and
\* emits the string token, exactly when the character is the quote that
\* opened the string; any other character, a quote of the other kind
\* included, is appended and the scan stays in string mode.
C17_MatchingTerminator ==
  [][ (pc = "scan" /\ state = "inString" /\ i < Len(text)) =>
        IF text[i + 1] = buffer[1]
        THEN /\ state' = "default"
             /\ buffer' = <<>>
             /\ result' = Append(result, Token("string", Append(buffer, text[i + 1]),
                                               tokenStart, i + 1))
        ELSE /\ state' = "inString"
             /\ buffer' = Append(buffer, text[i + 1])
             /\ result' = result ]_vars

\* C18: when tokenizeLine returns for a line whose last literal has no closing
\* quote, the last token is a string token that starts at the opening quote,
\* holds the text from there to the end of the line and ends at the line
\* length.
C18_UnterminatedString ==
  (pc = "done" /\ OpenAt(text, Len(text)) # "") =>
    LET p == CHOOSE c \in Cols(text) :
               /\ text[c + 1] \in Quotes
               /\ OpenAt(text, c) = ""
               /\ \A d \in Cols(text) : d > c => OpenAt(text, d) # ""
    IN /\ result # <<>>
       /\ result[Len(result)]
            = Token("string", SubSeq(text, p + 1, Len(text)), p, Len(text))

\* C19: a step that visits an `svc #0` line while the last mov into x8 holds a
\* value whose decoded number is not in the syscall table adds no hint to any
\* line, does not throw, leaves the registers as they were, and the pass
\* goes on with the next line.
C19_UnknownSyscall ==
  [][ (/\ hintPc = "loop"
       /\ HasKeyAfter(lineNumber)
       /\ IsSvc0(tokensByLine[KeyAfter(lineNumber)])
       /\ MovLines("x8", lineNumber) # {}
       /\ ~HasSyscall(getNumberFromImmediate(
             tokensByLine[Greatest(MovLines("x8", lineNumber))][4].text)))
      => /\ \A l \in (DOMAIN tokensByLine) \cup (DOMAIN hintsPerLine') :
              HintsAt(hintsPerLine', l) = HintsAt(hintsPerLine, l)
         /\ registerInfo' = registerInfo
         /\ hintPc' = "loop"
         /\ lineNumber' = KeyAfter(lineNumber)
         /\ entryIdx' = entryIdx + 1 ]_vars

\* C19 witness: after `mov x8, #7` and an `svc #0` the pass has gone on to a
\* mov into x0 and recorded it, and no line has a hint.
C19_Witness ==
  /\ PassAlive
  /\ lineNumber \in DOMAIN tokensByLine
  /\ IsMovInto(tokensByLine[lineNumber], "x0")
  /\ registerInfo["x0"] # Null
  /\ registerInfo["x0"].setLine = lineNumber
  /\ registerInfo["x8"] # Null
  /\ registerInfo["x8"].value = <<"#", "7">>
  /\ \E l \in DOMAIN tokensByLine :
       /\ registerInfo["x8"].setLine < l
       /\ l < lineNumber
       /\ IsSvc0(tokensByLine[l])
  /\ \A l \in DOMAIN hintsPerLine : hintsPerLine[l] = <<>>

\* C20: a step that visits an svc line whose second token is not "#0" (or is
\* missing) appends exactly the hint "expects #0" to that line when a mov
\* into x8 lies below it and nothing when none does, changes the hints of no
\* other line, and leaves the registers as they were.
C20_ExpectsZero ==
  [][ (/\ hintPc = "loop"
       /\ HasKeyAfter(lineNumber)
       /\ TextAt(tokensByLine[KeyAfter(lineNumber)], 0) = "svc"
       /\ TextAt(tokensByLine[KeyAfter(lineNumber)], 1) # "#0")
      => LET svcLine == KeyAfter(lineNumber) IN
         /\ HintsAt(hintsPerLine', svcLine)
              = IF MovLines("x8", lineNumber) # {}
                THEN Append(HintsAt(hintsPerLine, svcLine), Hint("expects #0"))
                ELSE HintsAt(hintsPerLine, svcLine)
         /\ \A l \in (DOMAIN tokensByLine) \cup (DOMAIN hintsPerLine') :
              l # svcLine => HintsAt(hintsPerLine', l) = HintsAt(hintsPerLine, l)
         /\ registerInfo' = registerInfo
         /\ hintPc' = "loop" ]_vars

\* C20 witness: `svc #1` was visited with x8 and x0 assigned: the svc line
\* carries "expects #0" and no other line has a hint.
C20_Witness ==
  /\ PassAlive
  /\ lineNumber \in DOMAIN tokensByLine
  /\ TextAt(tokensByLine[lineNumber], 0) = "svc"
  /\ TextAt(tokensByLine[lineNumber], 1) = "#1"
  /\ registerInfo["x8"] # Null
  /\ registerInfo["x0"] # Null
  /\ HintsAt(hintsPerLine, lineNumber) = <<Hint("expects #0")>>
  /\ \A l \in DOMAIN hintsPerLine : l # lineNumber => hintsPerLine[l] = <<>>

\* The value text v is a `#` followed by one or more decimal digits.
IsNumericImmediate(v) ==
  /\ Len(v) >= 2
  /\ v[1] = "#"
  /\ \A k \in 2..Len(v) : v[k] \in {"0", "1", "2", "3", "4", "5", "6", "7", "8", "9"}

\* C21: a step that visits an `svc #0` line while the last mov into x8 holds a
\* value that is not `#` and digits adds no hint to any line; and at a trap
\* of a known syscall, the hint for an argument register whose value is not
\* `#` and digits never shows a file-descriptor name.
C21_NotANumber ==
  [][ (/\ hintPc = "loop"
       /\ HasKeyAfter(lineNumber)
       /\ IsSvc0(tokensByLine[KeyAfter(lineNumber)])
       /\ MovLines("x8", lineNumber) # {})
      => /\ ~IsNumericImmediate(tokensByLine[Greatest(MovLines("x8", lineNumber))][4].text)
              => \A l \in (DOMAIN tokensByLine) \cup (DOMAIN hintsPerLine') :
                   HintsAt(hintsPerLine', l) = HintsAt(hintsPerLine, l)
         /\ KnownTrap =>
              \A k \in AssignedArgs :
                ~IsNumericImmediate(ArgText(k)) =>
                  \A n \in 1..Len(HintsAt(hintsPerLine', ArgLine(k))) :
                    n > Len(HintsAt(hintsPerLine, ArgLine(k))) =>
                      \A f \in FdNames :
                        HintsAt(hintsPerLine', ArgLine(k))[n].inline
                          # TrapArgs[k][2] \o ": " \o f ]_vars

\* C22: a step that visits a mov line whose second token is no name of the
\* seven registers changes neither the registers nor the hints and does not
\* throw, whatever tokens follow or are missing.
C22_UntrackedMov ==
  [][ (/\ hintPc = "loop"
       /\ HasKeyAfter(lineNumber)
       /\ TextAt(tokensByLine[KeyAfter(lineNumber)], 0) = "mov"
       /\ TextAt(tokensByLine[KeyAfter(lineNumber)], 1) \notin SevenRegisters)
      => /\ registerInfo' = registerInfo
         /\ hintsPerLine' = hintsPerLine
         /\ hintPc' = "loop" ]_vars

\* A step that visits a mov into one of the seven registers with a token at
\* index 3 gives that register the text and columns of that token and the
\* line number, and leaves every other register as it was.
C23_Mov ==
  (/\ hintPc = "loop"
   /\ HasKeyAfter(lineNumber)
   /\ \E r \in SevenRegisters : IsMovInto(tokensByLine[KeyAfter(lineNumber)], r)
   /\ Len(tokensByLine[KeyAfter(lineNumber)]) >= 4)
  => LET value == tokensByLine[KeyAfter(lineNumber)]
         r == TextAt(value, 1)
     IN /\ DOMAIN registerInfo' = DOMAIN registerInfo
        /\ registerInfo'[r].value = value[4].text
        /\ registerInfo'[r].startCol = value[4].startCol
        /\ registerInfo'[r].endCol = value[4].endCol
        /\ registerInfo'[r].setLine = KeyAfter(lineNumber)
        /\ \A q \in DOMAIN registerInfo : q # r => registerInfo'[q] = registerInfo[q]

\* A step that visits an `svc #0` of a known syscall puts the hint of each
\* argument register on the line of the last mov into it, with the value of
\* that line, and adds nothing to the earlier lines that are a mov into that
\* register or into x8.
C23_Trap ==
  KnownTrap =>
    /\ \A k \in AssignedArgs :
         /\ HintsAt(hintsPerLine', ArgLine(k))
              = Append(HintsAt(hintsPerLine, ArgLine(k)),
                       Hint(TrapArgs[k][2] \o ": "
                            \o ArgValue(TrapArgs[k][2], [value |-> ArgText(k)])))
         /\ \A l \in MovLines(TrapArgs[k][1], lineNumber) :
              l # ArgLine(k) => HintsAt(hintsPerLine', l) = HintsAt(hintsPerLine, l)
    /\ \A l \in MovLines("x8", lineNumber) :
         l # Greatest(MovLines("x8", lineNumber))
           => HintsAt(hintsPerLine', l) = HintsAt(hintsPerLine, l)

\* C23: a well-formed mov into a tracked register overwrites that register's
\* state only, with the value token's text and columns and the current line;
\* so a trap's hint for a register assigned several times goes to the line of
\* the last assignment, shows that line's value, and the earlier assignment
\* lines get no hint from that trap.
C23_LastAssignment == [][C23_Mov /\ C23_Trap]_vars

\* C23 witness: a trap was visited after two movs into x0: the later line
\* carries the one hint "fd: stdout", the earlier line none.
C23_Witness ==
  /\ PassAlive
  /\ lineNumber \in DOMAIN tokensByLine
  /\ IsSvc0(tokensByLine[lineNumber])
  /\ Cardinality(MovLines("x0", lineNumber)) = 2
  /\ registerInfo["x0"] # Null
  /\ registerInfo["x0"].setLine = Greatest(MovLines("x0", lineNumber))
  /\ registerInfo["x0"].value = <<"#", "1">>
  /\ HintsAt(hintsPerLine, registerInfo["x0"].setLine) = <<Hint("fd: stdout")>>
  /\ \A l \in MovLines("x0", lineNumber) :
       l # registerInfo["x0"].setLine => HintsAt(hintsPerLine, l) = <<>>

\* A step that visits an svc line leaves the registers as they were, and a
\* step that changes them visits a mov into one of the seven registers.
C24_Step ==
  (hintPc = "loop" /\ HasKeyAfter(lineNumber)) =>
    /\ TextAt(tokensByLine[KeyAfter(lineNumber)], 0) = "svc" => registerInfo' = registerInfo
    /\ registerInfo' # registerInfo =>
         \E r \in SevenRegisters : IsMovInto(tokensByLine[KeyAfter(lineNumber)], r)

\* The `svc #0` lines visited so far for which line l is the last mov into x8.
TrapsOn(l) ==
  {s \in DOMAIN tokensByLine :
     /\ s <= lineNumber
     /\ IsSvc0(tokensByLine[s])
     /\ MovLines("x8", s) # {}
     /\ Greatest(MovLines("x8", s)) = l}

\* The line of each mov into x8 carries one "syscall:" hint for each
\* recognized trap visited while that mov was the last one into x8.
C24_Count ==
  hintPc # "idle" =>
    \A l \in MovLines("x8", lineNumber) :
      IF HasSyscall(getNumberFromImmediate(tokensByLine[l][4].text))
      THEN /\ Len(HintsAt(hintsPerLine, l)) = Cardinality(TrapsOn(l))
           /\ CountInline(HintsAt(hintsPerLine, l),
                           SyscallText[getNumberFromImmediate(tokensByLine[l][4].text).n])
                = Cardinality(TrapsOn(l))
      ELSE HintsAt(hintsPerLine, l) = <<>>

\* C24: an svc line never changes the register state, which changes only at
\* a mov into a tracked register; so a second `svc #0` with no mov in between
\* appends the same hints again, and the number of "syscall:" hints on an x8
\* line is the number of recognized traps reached while it was current.
C24_ReadOnlyTraps == [][C24_Step]_vars /\ []C24_Count

\* C25: the text of every token is the substring of the line from its startCol
\* to its endCol, which is not empty, and every token is an ident, a comma or
\* a string: there is no comment token.
C25_TextIsSubstring ==
  \A k \in 1..Len(result) :
    /\ 0 <= result[k].startCol
    /\ result[k].startCol < result[k].endCol
    /\ result[k].endCol <= Len(text)
    /\ result[k].text = SubSeq(text, result[k].startCol + 1, result[k].endCol)
    /\ Len(result[k].text) = result[k].endCol - result[k].startCol
    /\ result[k].kind \in {"ident", "comma", "string"}

\* C25 witness: tokenizeLine has returned an ident, a comma and a string that
\* has no closing quote.
C25_Witness ==
  /\ pc = "done"
  /\ Len(result) = 3
  /\ result[1].kind = "ident"
  /\ result[2].kind = "comma"
  /\ result[3].kind = "string"
  /\ Len(result[3].text) = 2
  /\ result[3].text[2] \notin Quotes

\* The `svc #0` line s was a trap of a known syscall.
IsKnownTrapLine(s) ==
  /\ IsSvc0(tokensByLine[s])
  /\ MovLines("x8", s) # {}
  /\ HasSyscall(getNumberFromImmediate(tokensByLine[Greatest(MovLines("x8", s))][4].text))

\* The argument descriptors of the syscall of the trap on line s.
ArgsOfTrap(s) ==
  syscalls[getNumberFromImmediate(
             tokensByLine[Greatest(MovLines("x8", s))][4].text).n].args

\* The traps visited so far whose syscall names register r while line l is
\* the last mov into r.
ArgTrapsOn(l, r) ==
  {s \in DOMAIN tokensByLine :
     /\ s <= lineNumber
     /\ IsKnownTrapLine(s)
     /\ MovLines(r, s) # {}
     /\ Greatest(MovLines(r, s)) = l
     /\ \E k \in 1..Len(ArgsOfTrap(s)) : ArgsOfTrap(s)[k][1] = r}

\* The role of register r in the syscall of the trap on line s.
RoleAt(s, r) ==
  ArgsOfTrap(s)[CHOOSE k \in 1..Len(ArgsOfTrap(s)) : ArgsOfTrap(s)[k][1] = r][2]

\* The hints of line l, a mov into the argument register r: one for each of
\* those traps, in ascending order of their line numbers.
HintsInTrapOrder(l, r) ==
  LET traps == SortedKeys(ArgTrapsOn(l, r)) IN
  [k \in 1..Len(traps) |->
     Hint(RoleAt(traps[k], r) \o ": "
          \o ArgValue(RoleAt(traps[k], r), [value |-> tokensByLine[l][4].text]))]

\* The hints of a mov line are those of the traps that read it, the trap on
\* the lower-numbered svc line first.
C26_Order ==
  hintPc # "idle" =>
    \A r \in SevenRegisters \ {"x8"} :
      \A l \in MovLines(r, lineNumber) :
        HintsAt(hintsPerLine, l) = HintsInTrapOrder(l, r)

\* No step removes or moves a hint: the list of each line is extended at its
\* end or left as it was.
C26_Step ==
  \A l \in DOMAIN hintsPerLine :
    /\ l \in DOMAIN hintsPerLine'
    /\ IsPrefix(hintsPerLine[l], hintsPerLine'[l])

\* C26: the hints of one line are in the order in which the pass found them:
\* those of a trap on a lower-numbered svc line come before those of a trap
\* on a higher-numbered one, and no later step reorders or removes a hint.
C26_DiscoveryOrder == []C26_Order /\ [][C26_Step]_vars

\* C26 witness: the line of `mov x0, #1` was read by a write trap and then by
\* an exit trap, and carries "fd: stdout" before "status: #1".
C26_Witness ==
  /\ PassAlive
  /\ lineNumber \in DOMAIN tokensByLine
  /\ IsSvc0(tokensByLine[lineNumber])
  /\ registerInfo["x0"] # Null
  /\ Cardinality(ArgTrapsOn(registerInfo["x0"].setLine, "x0")) = 2
  /\ HintsAt(hintsPerLine, registerInfo["x0"].setLine)
       = <<Hint("fd: stdout"), Hint("status: #1")>>

\* The first token of line l of the token table.
Mnemonic(l) == TextAt(tokensByLine[l], 0)

\* The hint table has keys of the token table only, and a line that carries a
\* hint is an svc line or a mov line.
C27_Keys ==
  hintPc # "idle" =>
    /\ DOMAIN hintsPerLine \subseteq DOMAIN tokensByLine
    /\ \A l \in DOMAIN hintsPerLine :
         hintsPerLine[l] # <<>> => Mnemonic(l) \in {"mov", "svc"}

\* A step adds hints only when it visits an svc line, and then to that line
\* or to mov lines with a smaller line number; a step that visits a line
\* whose first token is neither mov nor svc changes no hint and no register.
C27_Step ==
  (hintPc = "loop" /\ HasKeyAfter(lineNumber)) =>
    LET v == KeyAfter(lineNumber) IN
    /\ \A l \in DOMAIN hintsPerLine' :
         hintsPerLine'[l] # HintsAt(hintsPerLine, l) =>
           /\ Mnemonic(v) = "svc"
           /\ l = v \/ (l < v /\ Mnemonic(l) = "mov")
    /\ Mnemonic(v) \notin {"mov", "svc"} =>
         /\ hintsPerLine' = hintsPerLine
         /\ registerInfo' = registerInfo
         /\ hintPc' = "loop"

\* C27: every key of the hint table is a key of the token table, every hint
\* is on the svc line that triggered it or on a mov line with a smaller line
\* number, and a line whose first token is neither mov nor svc never carries
\* a hint and never changes the register state.
C27_HintPlaces == []C27_Keys /\ [][C27_Step]_vars

\* C27 witness: the pass has returned for a table with an assigned x8, an add
\* line and a trap after them: the x8 line and the svc line carry a hint,
\* the add line none.
C27_Witness ==
  /\ hintPc = "returned"
  /\ registerInfo["x8"] # Null
  /\ \E a \in DOMAIN tokensByLine :
       /\ Mnemonic(a) = "add"
       /\ registerInfo["x8"].setLine < a
       /\ a < lineNumber
       /\ HintsAt(hintsPerLine, a) = <<>>
  /\ Mnemonic(lineNumber) = "svc"
  /\ Len(HintsAt(hintsPerLine, lineNumber)) = 1
  /\ Len(HintsAt(hintsPerLine, registerInfo["x8"].setLine)) = 1

====
